---------------------------- MODULE Spec2Model ----------------------------
(***************************************************************************)
(* Compliance-window computation of the ADX warehouse dashboard            *)
(* (computeCompliance and its helpers) and the part of the ADXSplash       *)
(* component that holds projects and their derived statuses.               *)
(*                                                                         *)
(* Time values are the time values of JavaScript Date objects, counted in  *)
(* HOURS since 1970-01-01T00:00Z instead of milliseconds (every instant    *)
(* the model uses is a whole hour).  A Date object is a record             *)
(* [nan, t]: nan is TRUE for an Invalid Date (time value NaN).             *)
(*                                                                         *)
(* A date string "YYYY-MM-DD" is the tuple <<YYYY, MM, DD>> of its         *)
(* numeric fields, the empty string is << >>, and an ISO instant           *)
(* "YYYY-MM-DDTHH:00:00.000Z" is <<YYYY, MM, DD, HH>>.                     *)
(*                                                                         *)
(* The local time zone of the host is tz, a fixed offset from UTC in       *)
(* hours (daylight saving changes are not modelled).                       *)
(***************************************************************************)
EXTENDS Integers, Sequences, FiniteSets, TLC

VARIABLES
    now,              \* the host's wall clock: what `new Date()` returns
    tz,               \* the host's local time zone offset (hours east of UTC)
    projects,         \* ADXSplash: useState<Project[]>
    derived,          \* ADXSplash: useMemo(() => projects.map(computeCompliance), [projects])
    activeProjectId,  \* ADXSplash: useState<string>
    projOpen,         \* Add Project modal: open flag
    projLabel,        \* Add Project modal: label field
    projApproval,     \* Add Project modal: approval date field
    projType,         \* Add Project modal: type select
    projCycle,        \* Add Project modal: code cycle select
    callProject,      \* the argument of a direct call of computeCompliance
    callNow,          \* the value `new Date()` had inside the last such call
    callOutcome,      \* what the last such call returned or threw
    prevStatus        \* the status the call before the last returned, if any

appVars  == <<projects, derived, activeProjectId, projOpen, projLabel,
              projApproval, projType, projCycle>>
callVars == <<callProject, callNow, callOutcome, prevStatus>>
vars     == <<now, tz, projects, derived, activeProjectId, projOpen, projLabel,
              projApproval, projType, projCycle, callProject, callNow, callOutcome,
              prevStatus>>

---------------------------------------------------------------------------
(* Calendar arithmetic of the Date object (ECMAScript Day, MakeDay,        *)
(* YearFromTime, MonthFromTime, DateFromTime on the proleptic Gregorian    *)
(* calendar).                                                              *)

HoursPerDay == 24

IsLeap(y) == (y % 4 = 0 /\ y % 100 # 0) \/ y % 400 = 0

DaysInMonth(y, m) ==
    IF m = 2 THEN (IF IsLeap(y) THEN 29 ELSE 28)
    ELSE IF m \in {4, 6, 9, 11} THEN 30 ELSE 31

\* Day number (days since 1970-01-01) of the civil date y-m-d, m in 1..12.
DaysFromCivil(y, m, d) ==
    LET yy  == IF m <= 2 THEN y - 1 ELSE y
        era == yy \div 400
        yoe == yy - era * 400
        mp  == IF m > 2 THEN m - 3 ELSE m + 9
        doy == (153 * mp + 2) \div 5 + d - 1
        doe == yoe * 365 + yoe \div 4 - yoe \div 100 + doy
    IN  era * 146097 + doe - 719468

\* The civil date [y, m, d] of day number z.
CivilFromDays(z) ==
    LET zz  == z + 719468
        era == zz \div 146097
        doe == zz - era * 146097
        yoe == (doe - doe \div 1460 + doe \div 36524 - doe \div 146096) \div 365
        doy == doe - (365 * yoe + yoe \div 4 - yoe \div 100)
        mp  == (5 * doy + 2) \div 153
        d   == doy - (153 * mp + 2) \div 5 + 1
        m   == IF mp < 10 THEN mp + 3 ELSE mp - 9
        y   == yoe + era * 400 + (IF m <= 2 THEN 1 ELSE 0)
    IN  [y |-> y, m |-> m, d |-> d]

\* ECMAScript MakeDay(year, month, date): month is 0-based and may exceed
\* 11, date may exceed the length of the month; both carry over.
MakeDay(year, month, date) ==
    LET ym == year + month \div 12
        mn == month % 12
    IN  DaysFromCivil(ym, mn + 1, 1) + date - 1

InvalidDate == [nan |-> TRUE, t |-> 0]

\* new Date(s) for a date-only string: parsed as UTC midnight; anything
\* that is not a calendar date gives an Invalid Date.
NewDate(s) ==
    IF /\ Len(s) = 3
       /\ s[2] \in 1..12
       /\ s[3] \in 1..DaysInMonth(s[1], s[2])
    THEN [nan |-> FALSE, t |-> DaysFromCivil(s[1], s[2], s[3]) * HoursPerDay]
    ELSE InvalidDate

\* Date.prototype.toISOString of a valid Date (it throws a RangeError on an
\* Invalid Date, see computeCompliance).
toISOString(d) ==
    LET day == d.t \div HoursPerDay
        c   == CivilFromDays(day)
    IN  <<c.y, c.m, c.d, d.t % HoursPerDay>>

\* addMonths as a clamping month addition would do it: the day of month is
\* cut down to the length of the target month instead of carried over.
addMonthsClamped(d, months, zone) ==
    IF d.nan THEN InvalidDate
    ELSE LET local == d.t + zone
             day   == local \div HoursPerDay
             tod   == local % HoursPerDay
             c     == CivilFromDays(day)
             first == MakeDay(c.y, (c.m - 1) + months, 1)
             tc    == CivilFromDays(first)
             len   == DaysInMonth(tc.y, tc.m)
             nd    == first + (IF c.d > len THEN len ELSE c.d) - 1
         IN  [nan |-> FALSE, t |-> nd * HoursPerDay + tod - zone]

\* function addMonths(d, months): copy, then setMonth(getMonth() + months).
\* getMonth and setMonth work on LOCAL time: the date is taken apart in the
\* host's time zone, the month advanced with MakeDay's carry, and the local
\* result converted back to UTC.
addMonths(d, months, zone) ==
    IF d.nan THEN InvalidDate
    ELSE LET local == d.t + zone
             day   == local \div HoursPerDay
             tod   == local % HoursPerDay
             c     == CivilFromDays(day)
             nd    == MakeDay(c.y, (c.m - 1) + months, c.d)
         IN  [nan |-> FALSE, t |-> nd * HoursPerDay + tod - zone]

---------------------------------------------------------------------------
(* computeCompliance                                                       *)

HousingMonths == 36
ModularMonths == 15
ApproxMonthDays == 30
ExpiringBelow == 6

\* GrandfatherMonths with the two durations exchanged.
GrandfatherMonthsSwapped(projectType) ==
    IF projectType = "housing" THEN ModularMonths ELSE HousingMonths

\* const months = p.projectType === "housing" ? 36 : 15
GrandfatherMonths(projectType) ==
    IF projectType = "housing" THEN HousingMonths ELSE ModularMonths

\* Math.floor(num / den) in place of Math.round.
MathFloor(num, den) == num \div den

\* Math.round(num / den) for den > 0: the nearest integer, ties toward
\* +infinity.
MathRound(num, den) == (2 * num + den) \div (2 * den)

Max(a, b) == IF a >= b THEN a ELSE b

MonthsLeftUnclamped(expires, nowDate) ==
    MathRound(expires.t - nowDate.t, HoursPerDay * ApproxMonthDays)

\* Math.max(0, Math.round((expires - now) / (1000*60*60*24*30)))
MonthsLeft(expires, nowDate) ==
    Max(0, MathRound(expires.t - nowDate.t, HoursPerDay * ApproxMonthDays))

\* StatusOf with `expires <= now`.
StatusOfInclusive(expires, nowDate, monthsLeft) ==
    IF expires.t <= nowDate.t THEN "expired"
    ELSE IF monthsLeft < ExpiringBelow THEN "expiring"
    ELSE "valid"

\* StatusOf with `monthsLeft <= 6`.
StatusOfAtMost(expires, nowDate, monthsLeft) ==
    IF expires.t < nowDate.t THEN "expired"
    ELSE IF monthsLeft <= ExpiringBelow THEN "expiring"
    ELSE "valid"

\* StatusOf with the operands of the first comparison exchanged.
StatusOfSwapped(expires, nowDate, monthsLeft) ==
    IF nowDate.t < expires.t THEN "expired"
    ELSE IF monthsLeft < ExpiringBelow THEN "expiring"
    ELSE "valid"

\* expires < now ? "expired" : monthsLeft < 6 ? "expiring" : "valid"
StatusOf(expires, nowDate, monthsLeft) ==
    IF expires.t < nowDate.t THEN "expired"
    ELSE IF monthsLeft < ExpiringBelow THEN "expiring"
    ELSE "valid"

\* CompliantResult built like a grandfathered result.
CompliantResultWindowed(p) ==
    [id |-> p.id, label |-> p.label, projectType |-> p.projectType,
     cycle |-> p.cycle, approvalDate |-> p.approvalDate,
     expiresAt |-> <<>>, monthsLeft |-> 0, status |-> "valid"]

\* { ...p, status: "compliant" }
CompliantResult(p) ==
    [id |-> p.id, label |-> p.label, projectType |-> p.projectType,
     cycle |-> p.cycle, approvalDate |-> p.approvalDate,
     status |-> "compliant"]

\* { ...p, expiresAt: expires.toISOString(), monthsLeft, status }
WindowResult(p, expires, monthsLeft, status) ==
    [id |-> p.id, label |-> p.label, projectType |-> p.projectType,
     cycle |-> p.cycle, approvalDate |-> p.approvalDate,
     expiresAt |-> toISOString(expires), monthsLeft |-> monthsLeft,
     status |-> status]

Returned(v) == [kind |-> "return", value |-> v]
Thrown(e)   == [kind |-> "throw", error |-> e]

\* Whether the cycle test sends the project to the grandfathering branch.
IsPostCycle(cycle) == cycle = "post2026"

\* A formatter that does not throw on an Invalid Date: the statuses computed
\* from NaN would be returned.
InvalidExpiryReturned(p) ==
    Returned([id |-> p.id, label |-> p.label, projectType |-> p.projectType,
              cycle |-> p.cycle, approvalDate |-> p.approvalDate,
              expiresAt |-> <<>>, monthsLeft |-> 0, status |-> "valid"])

\* What expires.toISOString() does with an Invalid Date.
InvalidExpiry(p) == Thrown("RangeError")

\* function computeCompliance(p): the outcome of a call made when the clock
\* reads nowT in a host of time zone zone.  With an Invalid Date every
\* comparison is false and monthsLeft is NaN, so status would be "valid",
\* but expires.toISOString() throws before anything is returned.
computeCompliance(p, nowT, zone) ==
    IF IsPostCycle(p.cycle) THEN Returned(CompliantResult(p))
    ELSE LET base       == NewDate(p.approvalDate)
             months     == GrandfatherMonths(p.projectType)
             expires    == addMonths(base, months, zone)
             nowDate    == [nan |-> FALSE, t |-> nowT]
             monthsLeft == MonthsLeft(expires, nowDate)
             status     == StatusOf(expires, nowDate, monthsLeft)
         IN  IF expires.nan THEN InvalidExpiry(p)
             ELSE Returned(WindowResult(p, expires, monthsLeft, status))

---------------------------------------------------------------------------
(* The ADXSplash component: projects, the memoised derived statuses, the   *)
(* Add Project modal.                                                      *)

MaxProjects == 4

\* Hosts west of, at and east of Greenwich.
TimeZones == {-8, 0, 9}

\* The instant (hours since the epoch) of UTC midnight of a civil date.
Midnight(y, m, d) == DaysFromCivil(y, m, d) * HoursPerDay

SeedProjects ==
    << [id |-> "p22", label |-> "2022 Plan", projectType |-> "housing",
        cycle |-> "pre2026", approvalDate |-> <<2022, 3, 15>>],
       [id |-> "p25", label |-> "2025 Plan", projectType |-> "modular",
        cycle |-> "pre2026", approvalDate |-> <<2025, 1, 10>>],
       [id |-> "p27", label |-> "2027 Plan", projectType |-> "housing",
        cycle |-> "post2026", approvalDate |-> <<2027, 2, 1>>] >>

\* Values the modal's controls can deliver: the label input any text, the
\* date input the empty string or a calendar date, the selects their options.
LabelInputs    == {"", "Plan A"}
ApprovalInputs == {<<>>, <<2025, 5, 1>>}
TypeOptions    == {"housing", "modular"}
CycleOptions   == {"pre2026", "post2026"}

\* Math.random().toString(36).slice(2, 8): some string; two draws can agree.
RandomIds == {"k3x9qa", "z07fhm"}

\* Instants at which the component is observed.
AppNows == {Midnight(2025, 1, 1), Midnight(2026, 4, 1), Midnight(2026, 12, 1)}

\* projects.map(computeCompliance), evaluated during a render at nowT.
MapCompliance(ps, nowT, zone) ==
    [i \in 1..Len(ps) |-> computeCompliance(ps[i], nowT, zone).value]

NotCalled == [kind |-> "none"]

Init ==
    /\ tz \in TimeZones
    /\ now \in AppNows
    /\ projects = SeedProjects
    /\ derived = MapCompliance(SeedProjects, now, tz)
    /\ activeProjectId = SeedProjects[1].id
    /\ projOpen = FALSE
    /\ projLabel = ""
    /\ projApproval = <<>>
    /\ projType = "housing"
    /\ projCycle = "pre2026"
    /\ callProject = SeedProjects[1]
    /\ callNow = now
    /\ callOutcome = NotCalled
    /\ prevStatus = "none"

\* The wall clock moves on; nothing in the component changes, and useMemo
\* keeps `derived` because `projects` is the same array.
Tick ==
    /\ \E n \in AppNows : n > now /\ now' = n
    /\ UNCHANGED <<tz, appVars, callVars>>

\* onClick={() => setProjOpen(true)}
OpenProjModal ==
    /\ ~projOpen
    /\ projOpen' = TRUE
    /\ UNCHANGED <<now, tz, projects, derived, activeProjectId, projLabel,
                   projApproval, projType, projCycle, callVars>>

\* Cancel: onClick={() => setProjOpen(false)}
CancelProjModal ==
    /\ projOpen
    /\ projOpen' = FALSE
    /\ UNCHANGED <<now, tz, projects, derived, activeProjectId, projLabel,
                   projApproval, projType, projCycle, callVars>>

SetProjLabel ==
    /\ projOpen
    /\ \E v \in LabelInputs : v # projLabel /\ projLabel' = v
    /\ UNCHANGED <<now, tz, projects, derived, activeProjectId, projOpen,
                   projApproval, projType, projCycle, callVars>>

SetProjApproval ==
    /\ projOpen
    /\ \E v \in ApprovalInputs : v # projApproval /\ projApproval' = v
    /\ UNCHANGED <<now, tz, projects, derived, activeProjectId, projOpen,
                   projLabel, projType, projCycle, callVars>>

SetProjType ==
    /\ projOpen
    /\ \E v \in TypeOptions : v # projType /\ projType' = v
    /\ UNCHANGED <<now, tz, projects, derived, activeProjectId, projOpen,
                   projLabel, projApproval, projCycle, callVars>>

SetProjCycle ==
    /\ projOpen
    /\ \E v \in CycleOptions : v # projCycle /\ projCycle' = v
    /\ UNCHANGED <<now, tz, projects, derived, activeProjectId, projOpen,
                   projLabel, projApproval, projType, callVars>>

\* onChange={(e) => setActiveProjectId(e.target.value)}: one of the options,
\* which are the ids of `derived`.
SetActiveProjectId ==
    /\ \E i \in 1..Len(derived) :
          /\ derived[i].id # activeProjectId
          /\ activeProjectId' = derived[i].id
    /\ UNCHANGED <<now, tz, projects, derived, projOpen, projLabel,
                   projApproval, projType, projCycle, callVars>>

addProjectLabelOptional(max) ==
    /\ projOpen
    /\ Len(projects) < max
    /\ IF projApproval = <<>>
       THEN UNCHANGED <<projects, derived, projOpen, projLabel, projApproval>>
       ELSE \E id \in RandomIds :
              /\ projects' = Append(projects,
                     [id |-> id, label |-> projLabel, projectType |-> projType,
                      cycle |-> projCycle, approvalDate |-> projApproval])
              /\ derived' = MapCompliance(projects', now, tz)
              /\ projOpen' = FALSE
              /\ projLabel' = ""
              /\ projApproval' = <<>>
    /\ UNCHANGED <<now, tz, activeProjectId, projType, projCycle, callVars>>

\* const addProject = () => {...}, the Save button of the modal, and the
\* render it causes: `projects` is a new array, so useMemo recomputes
\* `derived` against the clock as it reads now.
\* The list is kept to fewer than `max` projects to bound the model.
addProjectUpTo(max) ==
    /\ projOpen
    /\ Len(projects) < max
    /\ IF projLabel = "" \/ projApproval = <<>>
       THEN UNCHANGED <<projects, derived, projOpen, projLabel, projApproval>>
       ELSE \E id \in RandomIds :
              /\ projects' = Append(projects,
                     [id |-> id, label |-> projLabel, projectType |-> projType,
                      cycle |-> projCycle, approvalDate |-> projApproval])
              /\ derived' = MapCompliance(projects', now, tz)
              /\ projOpen' = FALSE
              /\ projLabel' = ""
              /\ projApproval' = <<>>
    /\ UNCHANGED <<now, tz, activeProjectId, projType, projCycle, callVars>>

addProject == addProjectUpTo(MaxProjects)

Next ==
    \/ Tick
    \/ OpenProjModal
    \/ CancelProjModal
    \/ SetProjLabel
    \/ SetProjApproval
    \/ SetProjType
    \/ SetProjCycle
    \/ SetActiveProjectId
    \/ addProject

Spec == Init /\ [][Next]_vars

---------------------------------------------------------------------------
(* Direct calls of computeCompliance: one project, evaluated again and     *)
(* again while the clock moves on.                                         *)

\* How many days on either side of a classification boundary the clock is
\* sampled day by day.
BoundaryDays == 1

\* Approval dates of the projects evaluated: calendar dates (mid-month,
\* first and last days of months, a leap day), the empty string and a
\* string that is no calendar date.
EvalApprovalDates ==
    {<<2022, 3, 15>>, <<2025, 1, 10>>, <<2024, 2, 29>>, <<2024, 11, 30>>,
     <<2025, 1, 31>>, <<2025, 5, 1>>, <<2024, 3, 1>>, <<2024, 12, 1>>,
     <<>>, <<2022, 13, 45>>}

\* projectType and cycle are plain strings at run time: the declared values
\* and one value outside each type.
EvalTypes  == {"housing", "modular", "commercial"}
EvalCycles == {"pre2026", "post2026", "pre2023"}

EvalProjects ==
    [id : {"p"}, label : {"Plan"}, projectType : EvalTypes,
     cycle : EvalCycles, approvalDate : EvalApprovalDates]

IsCalendarDate(s) ==
    Len(s) = 3 /\ s[2] \in 1..12 /\ s[3] \in 1..DaysInMonth(s[1], s[2])

\* The calendar date `months` months after the date s, as a day number: the
\* month field advanced, the day of month kept, an overflowing day carried
\* into the following month.
CalendarAdd(s, months) == MakeDay(s[1], (s[2] - 1) + months, s[3])

\* The instants at which a project is evaluated: the three instants of the
\* worked example, and for a calendar approval date the days around the
\* end of its window, around 165 days before it and around 181 days (six
\* months) before it, with the hours next to the first two.
FixedNows == {Midnight(2024, 6, 1), Midnight(2025, 1, 1), Midnight(2025, 4, 1)}

SampleMonths(p) == IF p.projectType = "housing" THEN {36} ELSE {15}

NowSamples(p) ==
    IF ~IsCalendarDate(p.approvalDate) THEN FixedNows
    ELSE FixedNows \cup
         UNION { LET e == CalendarAdd(p.approvalDate, m) * HoursPerDay
                 IN  {e - (b - k) * HoursPerDay :
                         b \in {0, 165, 181}, k \in (0 - BoundaryDays)..BoundaryDays}
                     \cup {e - 1, e + 1, e - 165 * HoursPerDay - 1,
                           e - 165 * HoursPerDay + 1}
               : m \in SampleMonths(p) }

EvalInit ==
    /\ tz \in TimeZones
    /\ callProject \in EvalProjects
    /\ now \in NowSamples(callProject)
    /\ callNow = now
    /\ callOutcome = NotCalled
    /\ prevStatus = "none"
    /\ projects = SeedProjects
    /\ derived = MapCompliance(SeedProjects, now, tz)
    /\ activeProjectId = SeedProjects[1].id
    /\ projOpen = FALSE
    /\ projLabel = ""
    /\ projApproval = <<>>
    /\ projType = "housing"
    /\ projCycle = "pre2026"

\* A call computeCompliance(callProject): `new Date()` inside it reads the
\* clock.
Evaluate ==
    /\ callNow' = now
    /\ callOutcome' = computeCompliance(callProject, now, tz)
    /\ prevStatus' = IF callOutcome.kind = "return"
                     THEN callOutcome.value.status ELSE "none"
    /\ UNCHANGED <<now, tz, callProject, appVars>>

\* The clock moves on between calls.
AdvanceClock ==
    /\ \E n \in NowSamples(callProject) : n > now /\ now' = n
    /\ UNCHANGED <<tz, callVars, appVars>>

EvalNext == Evaluate \/ AdvanceClock

EvalSpec == EvalInit /\ [][EvalNext]_vars

---------------------------------------------------------------------------
(* Properties of computeCompliance, checked under EvalSpec.                *)

Called   == callOutcome.kind # "none"
Returns  == callOutcome.kind = "return"
Throws   == callOutcome.kind = "throw"
Result   == callOutcome.value

\* The instant an ISO string <<y, m, d, h>> denotes.
InstantOf(iso) == Midnight(iso[1], iso[2], iso[3]) + iso[4]

\* The ISO string of UTC midnight of day number z.
IsoOfDay(z) ==
    LET c == CivilFromDays(z) IN <<c.y, c.m, c.d, 0>>

PreCutover  == callProject.cycle = "pre2026"
PostCutover == callProject.cycle = "post2026"
KnownType   == callProject.projectType \in {"housing", "modular"}
KnownCycle  == callProject.cycle \in {"pre2026", "post2026"}

\* The policy table of the specification.
PolicyMonths(projectType) == IF projectType = "housing" THEN 36 ELSE 15

\* C1: a post-cutover project is always returned as 'compliant', with no
\* expiresAt and no monthsLeft, whatever its type, approval date (a
\* malformed one included) and the time of the call.
C1_PostCutoverCompliant ==
    (Called /\ PostCutover) =>
        /\ Returns
        /\ Result.status = "compliant"
        /\ "expiresAt" \notin DOMAIN Result
        /\ "monthsLeft" \notin DOMAIN Result

C1_Witness ==
    /\ Called /\ PostCutover
    /\ callProject.approvalDate = <<2022, 13, 45>>
    /\ callProject.projectType = "modular"
    /\ Returns /\ Result.status = "compliant"

\* C2 (as claimed): for every pre-cutover housing or modular project with a
\* calendar approval date, expiresAt is the approval date advanced by 36
\* resp. 15 calendar months, whatever the time of the call (and the host).
C2_ExpiresAtIsCalendarAdd ==
    (Called /\ PreCutover /\ KnownType /\ IsCalendarDate(callProject.approvalDate)) =>
        /\ Returns
        /\ "expiresAt" \in DOMAIN Result
        /\ Result.expiresAt =
              IsoOfDay(CalendarAdd(callProject.approvalDate,
                                   PolicyMonths(callProject.projectType)))

\* C3: for a pre-cutover project the status is 'expired' exactly when
\* expiresAt is strictly before the time of the call, otherwise 'expiring'
\* exactly when monthsLeft < 6, and 'valid' in every remaining case.
C3_Classification ==
    (Called /\ PreCutover /\ Returns) =>
        LET e == InstantOf(Result.expiresAt) IN
        /\ Result.status \in {"expired", "expiring", "valid"}
        /\ (Result.status = "expired") <=> (e < callNow)
        /\ (Result.status = "expiring") <=> (~(e < callNow) /\ Result.monthsLeft < 6)
        /\ (Result.status = "valid") <=> (~(e < callNow) /\ ~(Result.monthsLeft < 6))

\* A call made at the very instant of expiry: not expired.
C3_Witness ==
    /\ Called /\ PreCutover /\ Returns
    /\ InstantOf(Result.expiresAt) = callNow
    /\ Result.status = "expiring"

\* C4: monthsLeft is max(0, round(D / 30)), D the days from the time of the
\* call to expiresAt: the integer r nearest to D / 30 (r - 1/2 <= D/30 <
\* r + 1/2), clamped at 0; so it is a natural number, and 0 once expiresAt
\* is past.  (In hours: D / 30 = dh / 720.)
C4_MonthsLeft ==
    (Called /\ PreCutover /\ Returns) =>
        LET dh == InstantOf(Result.expiresAt) - callNow IN
        /\ Result.monthsLeft \in Nat
        /\ \E r \in -60..60 :
              /\ (2 * r - 1) * 720 <= 2 * dh
              /\ 2 * dh < (2 * r + 1) * 720
              /\ Result.monthsLeft = (IF r > 0 THEN r ELSE 0)
        /\ (dh < 0) => Result.monthsLeft = 0

\* 165 days to go: D / 30 = 5.5 rounds up to 6.
C4_Witness ==
    /\ Called /\ PreCutover /\ Returns
    /\ InstantOf(Result.expiresAt) - callNow = 165 * 24
    /\ Result.monthsLeft = 6

\* The instant six calendar months after the instant n (UTC calendar).
SixMonthsAfter(n) ==
    LET c == CivilFromDays(n \div 24)
    IN  MakeDay(c.y, (c.m - 1) + 6, c.d) * 24 + (n % 24)

\* C5 (as claimed): a pre-cutover project whose expiresAt is exactly six
\* months minus one day after the time of the call is 'expiring'; one whose
\* expiresAt is six months or more after it is 'valid'.
C5_SixMonthBoundary ==
    (Called /\ PreCutover /\ Returns) =>
        LET e == InstantOf(Result.expiresAt) IN
        /\ (e = SixMonthsAfter(callNow) - 24) => Result.status = "expiring"
        /\ (e >= SixMonthsAfter(callNow)) => Result.status = "valid"

\* C5 (amended): six months minus one day before expiresAt the project is
\* already 'valid', like at six months or more; the boundary lies at 165
\* days: less than 165 days (and not past) is 'expiring', 165 days or more
\* is 'valid'.
C5_BoundaryAt165Days ==
    (Called /\ PreCutover /\ Returns) =>
        LET e == InstantOf(Result.expiresAt) IN
        /\ (e = SixMonthsAfter(callNow) - 24) => Result.status = "valid"
        /\ (e >= SixMonthsAfter(callNow)) => Result.status = "valid"
        /\ (e - callNow >= 165 * 24) => Result.status = "valid"
        /\ (e - callNow >= 0 /\ e - callNow < 165 * 24) => Result.status = "expiring"

C5_Witness ==
    /\ Called /\ PreCutover /\ Returns
    /\ InstantOf(Result.expiresAt) = SixMonthsAfter(callNow) - 24
    /\ Result.status = "valid"

Risk(status) ==
    IF status = "valid" THEN 0 ELSE IF status = "expiring" THEN 1 ELSE 2

\* C6: for a fixed pre-cutover project, a later call never returns a status
\* lower in the order valid < expiring < expired than an earlier call did.
C6_Monotone ==
    (PreCutover /\ Returns /\ prevStatus # "none") =>
        Risk(Result.status) >= Risk(prevStatus)

C6_Witness ==
    /\ PreCutover /\ Returns
    /\ prevStatus = "valid"
    /\ Result.status = "expired"

\* C8 (as claimed): a project whose projectType or cycle is outside the
\* declared values is rejected: the call returns no status.
C8_UnknownEnumRejected ==
    (Called /\ (~KnownType \/ ~KnownCycle)) => Throws

\* C9: a pre-cutover project whose approvalDate parses to no date ends in
\* an error: nothing is returned, so no status and no expiresAt.
C9_InvalidDateFails ==
    (Called /\ PreCutover /\ NewDate(callProject.approvalDate).nan) =>
        Throws /\ ~Returns

C9_Witness ==
    /\ Called /\ PreCutover
    /\ callProject.approvalDate = <<2022, 13, 45>>
    /\ callProject.projectType = "housing"
    /\ Throws

\* The target month of an approval date s advanced by `months`, and
\* whether the approval day of month exists in it.
TargetMonth(s, months) == CivilFromDays(MakeDay(s[1], (s[2] - 1) + months, 1))
DayOverflows(s, months) ==
    s[3] > DaysInMonth(TargetMonth(s, months).y, TargetMonth(s, months).m)

---------------------------------------------------------------------------
(* Properties of the component, checked under Spec.                        *)

\* C7 (as claimed): the statuses the component holds are those of the
\* current instant: each held status equals what evaluating its project now
\* gives.
C7_DerivedIsCurrent ==
    derived = MapCompliance(projects, now, tz)

---------------------------------------------------------------------------
(* One project followed through its window: the clock advances in steps of *)
(* at most one day and the project is evaluated at every step.             *)

\* The clock starts LeadDays days before the calendar end of the window and
\* is followed until TailDays days after it.
LeadDays == 167
TailDays == 3

DayProjects ==
    { [id |-> "p", label |-> "Plan", projectType |-> "housing",
       cycle |-> "pre2026", approvalDate |-> <<2022, 3, 15>>],
      [id |-> "p", label |-> "Plan", projectType |-> "housing",
       cycle |-> "pre2026", approvalDate |-> <<2024, 2, 29>>],
      [id |-> "p", label |-> "Plan", projectType |-> "modular",
       cycle |-> "pre2026", approvalDate |-> <<2025, 5, 1>>] }

WindowEnd(p) ==
    CalendarAdd(p.approvalDate, GrandfatherMonths(p.projectType)) * HoursPerDay

DayInit ==
    /\ tz \in TimeZones
    /\ callProject \in DayProjects
    /\ now = WindowEnd(callProject) - LeadDays * HoursPerDay
    /\ callNow = now
    /\ callOutcome = NotCalled
    /\ prevStatus = "none"
    /\ projects = SeedProjects
    /\ derived = MapCompliance(SeedProjects, now, tz)
    /\ activeProjectId = SeedProjects[1].id
    /\ projOpen = FALSE
    /\ projLabel = ""
    /\ projApproval = <<>>
    /\ projType = "housing"
    /\ projCycle = "pre2026"

\* Half a day or a day passes (until the end of the period followed).
DayPasses ==
    /\ now < WindowEnd(callProject) + TailDays * HoursPerDay
    /\ \E step \in {HoursPerDay \div 2, HoursPerDay} : now' = now + step

\* The next call computeCompliance(callProject), at most a day after the
\* instant last looked at: `new Date()` inside it reads the advanced clock.
EvaluateLater ==
    /\ DayPasses
    /\ callNow' = now'
    /\ callOutcome' = computeCompliance(callProject, now', tz)
    /\ prevStatus' = IF callOutcome.kind = "return"
                     THEN callOutcome.value.status ELSE "none"
    /\ UNCHANGED <<tz, callProject, appVars>>

DayNext == Evaluate \/ EvaluateLater

\* Time never stops passing: every step that moves the clock is an
\* EvaluateLater step, so this is weak fairness of EvaluateLater.
DaySpec == DayInit /\ [][DayNext]_vars /\ WF_now(DayPasses)

StatusNow(st) == callOutcome.kind = "return" /\ callOutcome.value.status = st

\* C11: a pre-cutover project that is 'valid' becomes 'expired' as the clock
\* advances in steps of at most a day, is never 'expired' right after being
\* 'valid' (it is 'expiring' in between), stays 'expired' once it is, and
\* its record is never changed on the way.
C11_Lifecycle ==
    /\ [](StatusNow("valid") => <>StatusNow("expired"))
    /\ [](~(prevStatus = "valid" /\ StatusNow("expired")))
    /\ [][StatusNow("expired") => StatusNow("expired")']_vars
    /\ [][callProject' = callProject]_vars

C11_Witness ==
    /\ prevStatus = "expiring"
    /\ StatusNow("expired")
    /\ callProject.cycle = "pre2026"

---------------------------------------------------------------------------
(* The worked example: the housing project approved 2022-03-15, checked    *)
(* under EvalSpec.                                                         *)

IsExample ==
    /\ callProject.cycle = "pre2026"
    /\ callProject.projectType = "housing"
    /\ callProject.approvalDate = <<2022, 3, 15>>

\* C12: the pre-cutover housing project approved 2022-03-15 has expiresAt
\* 2025-03-15 and is 'valid' when evaluated on 2024-06-01, 'expiring' on
\* 2025-01-01 and 'expired' on 2025-04-01.
C12_WorkedExample ==
    (Called /\ IsExample) =>
        /\ Returns
        /\ Result.expiresAt = <<2025, 3, 15, 0>>
        /\ (callNow = Midnight(2024, 6, 1)) => Result.status = "valid"
        /\ (callNow = Midnight(2025, 1, 1)) => Result.status = "expiring"
        /\ (callNow = Midnight(2025, 4, 1)) => Result.status = "expired"

C12_Witness ==
    /\ Called /\ IsExample /\ Returns
    /\ callNow = Midnight(2025, 4, 1)
    /\ prevStatus = "expiring"
    /\ Result.status = "expired"

\* C13 (as claimed): for that project monthsLeft is 9 when evaluated on
\* 2024-06-01 and 2 when evaluated on 2025-01-01.
C13_ExampleMonths ==
    (Called /\ IsExample /\ Returns) =>
        /\ (callNow = Midnight(2024, 6, 1)) => Result.monthsLeft = 9
        /\ (callNow = Midnight(2025, 1, 1)) => Result.monthsLeft = 2

\* C13 (amended): monthsLeft is 10 when evaluated on 2024-06-01 (287 days
\* remain, and 287 / 30 rounds to 10) and 2 when evaluated on 2025-01-01
\* (73 days remain).
C13_ExampleMonthsRounded ==
    (Called /\ IsExample /\ Returns) =>
        /\ (callNow = Midnight(2024, 6, 1)) =>
              /\ InstantOf(Result.expiresAt) - callNow = 287 * 24
              /\ Result.monthsLeft = 10
        /\ (callNow = Midnight(2025, 1, 1)) =>
              /\ InstantOf(Result.expiresAt) - callNow = 73 * 24
              /\ Result.monthsLeft = 2

C13_Witness ==
    /\ Called /\ IsExample /\ Returns
    /\ callNow = Midnight(2024, 6, 1)
    /\ Result.monthsLeft = 10

\* C14 (as claimed): in every status returned, expiresAt is present exactly
\* when the cycle is pre-cutover, monthsLeft exactly when expiresAt is,
\* the status is 'compliant' exactly when the cycle is post-cutover and one
\* of valid / expiring / expired exactly when it is pre-cutover.
C14_Shape ==
    (Called /\ Returns) =>
        /\ ("expiresAt" \in DOMAIN Result) <=> PreCutover
        /\ ("monthsLeft" \in DOMAIN Result) <=> ("expiresAt" \in DOMAIN Result)
        /\ (Result.status = "compliant") <=> PostCutover
        /\ (Result.status \in {"valid", "expiring", "expired"}) <=> PreCutover

---------------------------------------------------------------------------
(* One pass of projects.map(computeCompliance), call by call: every call   *)
(* reads the clock for itself (`const now = new Date()`), and the clock    *)
(* may have moved on between two calls.  Here `derived` is the array the   *)
(* pass is building.  (Under Spec a render is taken as one instant.)       *)

\* The longest collection evaluated, and how many instants of the model the
\* clock is followed past a start of a pass.
MaxPassLen == 3
PassSlack == 2

PassPool ==
    { [id |-> "a", label |-> "Unit A", projectType |-> "housing",
       cycle |-> "pre2026", approvalDate |-> <<2022, 3, 15>>],
      [id |-> "b", label |-> "Unit B", projectType |-> "housing",
       cycle |-> "pre2026", approvalDate |-> <<2022, 3, 15>>],
      [id |-> "c", label |-> "Unit C", projectType |-> "modular",
       cycle |-> "pre2026", approvalDate |-> <<2025, 1, 10>>],
      [id |-> "d", label |-> "Unit D", projectType |-> "housing",
       cycle |-> "post2026", approvalDate |-> <<2022, 3, 15>>] }

\* Collections of up to MaxPassLen different projects of the pool.
PassCollections ==
    UNION { {c \in [1..n -> PassPool] :
                \A i, j \in 1..n : c[i].id = c[j].id => i = j}
            : n \in 1..MaxPassLen }

\* The pass starts shortly before, at, or after the end of the window of
\* the housing projects of the pool.
PassStarts ==
    LET e == Midnight(2025, 3, 15)
    IN  {e - 165 * HoursPerDay - 1, e - 1, e, e + 1}

PassInit ==
    /\ tz \in TimeZones
    /\ projects \in PassCollections
    /\ now \in PassStarts
    /\ derived = <<>>
    /\ activeProjectId = projects[1].id
    /\ projOpen = FALSE
    /\ projLabel = ""
    /\ projApproval = <<>>
    /\ projType = "housing"
    /\ projCycle = "pre2026"
    /\ callProject = projects[1]
    /\ callNow = now
    /\ callOutcome = NotCalled
    /\ prevStatus = "none"

\* The next call of the pass: computeCompliance(projects[i]) at the instant
\* the clock reads at that moment.
PassCall ==
    /\ Len(derived) < Len(projects)
    /\ derived' = Append(derived,
                     computeCompliance(projects[Len(derived) + 1], now, tz).value)
    /\ UNCHANGED <<now, tz, projects, activeProjectId, projOpen, projLabel,
                   projApproval, projType, projCycle, callVars>>

\* The clock moves to the next instant while the pass is under way.
PassTick ==
    /\ Len(derived) < Len(projects)
    /\ \E s \in PassStarts : s <= now /\ now < s + PassSlack
    /\ now' = now + 1
    /\ UNCHANGED <<tz, appVars, callVars>>

PassNext == PassCall \/ PassTick

PassSpec == PassInit /\ [][PassNext]_vars

PassDone == Len(derived) = Len(projects)

\* C15 (as claimed): a pass gives one status per project, and two projects
\* of the collection with equal projectType, cycle and approvalDate get
\* equal status, expiresAt and monthsLeft, wherever they stand.
C15_EqualProjectsEqualStatus ==
    PassDone =>
        /\ \A i \in 1..Len(projects) : derived[i].id = projects[i].id
        /\ \A i, j \in 1..Len(projects) :
              (/\ projects[i].projectType = projects[j].projectType
               /\ projects[i].cycle = projects[j].cycle
               /\ projects[i].approvalDate = projects[j].approvalDate)
              => /\ derived[i].status = derived[j].status
                 /\ DOMAIN derived[i] = DOMAIN derived[j]
                 /\ ("expiresAt" \in DOMAIN derived[i]) =>
                       /\ derived[i].expiresAt = derived[j].expiresAt
                       /\ derived[i].monthsLeft = derived[j].monthsLeft

---------------------------------------------------------------------------
(* The aggregates of the dashboard, computed from `derived`.               *)

IsPositive(x) == x.status = "valid" \/ x.status = "compliant"
IsExpiring(x) == x.status = "expiring"
IsExpired(x)  == x.status = "expired"
IsAlert(x)    == x.status = "expiring" \/ x.status = "expired"

compCountsValidOnly ==
    [valid    |-> Len(SelectSeq(derived, LAMBDA x : x.status = "valid")),
     expiring |-> Len(SelectSeq(derived, IsExpiring)),
     expired  |-> Len(SelectSeq(derived, IsExpired))]

\* const compCounts = useMemo(() => {...}, [derived])
compCounts ==
    [valid    |-> Len(SelectSeq(derived, IsPositive)),
     expiring |-> Len(SelectSeq(derived, IsExpiring)),
     expired  |-> Len(SelectSeq(derived, IsExpired))]

\* const alerts = useMemo(() => derived.filter(...), [derived])
alerts == SelectSeq(derived, IsAlert)

\* The positions of `derived` whose status is one of `statuses`.
PositionsWith(statuses) ==
    {i \in 1..Len(derived) : derived[i].status \in statuses}

\* C16: the alert list is the expiring and expired projects of `derived`,
\* each once and in order, and none that is valid or compliant; the three
\* counters count disjoint classes that cover every project, so they add up
\* to the number of projects, and the alert list is as long as the expiring
\* and expired counters together.
C16_Aggregation ==
    /\ \A j \in 1..Len(alerts) : alerts[j].status \in {"expiring", "expired"}
    /\ Len(alerts) = Cardinality(PositionsWith({"expiring", "expired"}))
    /\ \A i \in PositionsWith({"expiring", "expired"}) :
          \E j \in 1..Len(alerts) : alerts[j] = derived[i]
    /\ compCounts.valid = Cardinality(PositionsWith({"valid", "compliant"}))
    /\ compCounts.expiring = Cardinality(PositionsWith({"expiring"}))
    /\ compCounts.expired = Cardinality(PositionsWith({"expired"}))
    /\ compCounts.valid + compCounts.expiring + compCounts.expired
          = Len(projects)
    /\ Len(alerts) = compCounts.expiring + compCounts.expired

C16_Witness ==
    /\ Len(projects) > Len(SeedProjects)
    /\ PositionsWith({"valid"}) # {}
    /\ PositionsWith({"compliant"}) # {}
    /\ compCounts.expiring > 0
    /\ compCounts.expired > 0
    /\ Len(alerts) >= 2

---------------------------------------------------------------------------
(* The presenter of a status.                                              *)

\* status: "valid" | "expiring" | "expired" | "compliant"
StatusValues == {"valid", "expiring", "expired", "compliant"}

Emerald == "bg-emerald-600 text-white"
Amber   == "bg-amber-600 text-white"
Rose    == "bg-rose-600 text-white"

badgeToneCompliantUnstyled(status) ==
    CASE status = "valid"    -> Emerald
      [] status = "expiring" -> Amber
      [] status = "expired"  -> Rose
      [] OTHER               -> "undefined"

\* function badgeTone(status): a switch without default, so any other value
\* falls out of it and the function returns undefined.
badgeTone(status) ==
    CASE status \in {"valid", "compliant"} -> Emerald
      [] status = "expiring"               -> Amber
      [] status = "expired"                -> Rose
      [] OTHER                             -> "undefined"

\* className={... badgeTone(p.status)} for each p of `derived`: the badges
\* of the project list as rendered.
badges == [i \in 1..Len(derived) |-> badgeTone(derived[i].status)]

\* C17: badgeTone gives each of the four classifications exactly one of the
\* three tiers: emerald for compliant and for valid, amber for expiring,
\* rose for expired; every badge the project list renders is the tier of
\* its project's status.
C17_BadgeTone ==
    /\ \A s \in StatusValues : badgeTone(s) \in {Emerald, Amber, Rose}
    /\ badgeTone("compliant") = Emerald
    /\ badgeTone("valid") = Emerald
    /\ badgeTone("expiring") = Amber
    /\ badgeTone("expired") = Rose
    /\ Cardinality({Emerald, Amber, Rose}) = 3
    /\ \A i \in 1..Len(derived) :
          /\ derived[i].status \in StatusValues
          /\ badges[i] = Emerald <=> derived[i].status \in {"valid", "compliant"}
          /\ badges[i] = Amber <=> derived[i].status = "expiring"
          /\ badges[i] = Rose <=> derived[i].status = "expired"

C17_Witness ==
    /\ {badges[i] : i \in 1..Len(badges)} = {Emerald, Amber, Rose}
    /\ \E i, j \in 1..Len(derived) :
          /\ derived[i].status = "compliant" /\ derived[j].status = "valid"
          /\ badges[i] = badges[j]

---------------------------------------------------------------------------
(* Projects added one after another: the ids that addProject draws.        *)

\* How long the project list may grow when several projects are added.
MaxIdProjects == 5

addProjectMore == addProjectUpTo(MaxIdProjects)

\* The user opens the modal, types a label and a date and saves, again and
\* again.
IdNext ==
    \/ OpenProjModal
    \/ SetProjLabel
    \/ SetProjApproval
    \/ addProjectMore

IdSpec == Init /\ [][IdNext]_vars

IdsDistinct ==
    \A i, j \in 1..Len(projects) : i # j => projects[i].id # projects[j].id

IdsKept ==
    \A i \in 1..Len(projects) :
        i <= Len(projects') /\ projects'[i].id = projects[i].id

\* C18 (as claimed): whatever projects have been added to the seed
\* projects, no two projects of the list have the same id, and no step
\* changes the id of a project already in the list.
C18_UniqueIds == [](IdsDistinct) /\ [][IdsKept]_vars

---------------------------------------------------------------------------
(* What addProject changes.                                                *)

FormIncomplete == projLabel = "" \/ projApproval = <<>>

\* The step leaves the project list, the form and the modal as they were.
AddRejected ==
    UNCHANGED <<projects, derived, projLabel, projApproval, projType,
                projCycle, projOpen, activeProjectId>>

\* The step puts one project made from the form at the end of the list and
\* resets the modal.
AddAccepted ==
    /\ Len(projects') = Len(projects) + 1
    /\ SubSeq(projects', 1, Len(projects)) = projects
    /\ LET added == projects'[Len(projects')]
       IN  /\ added.label = projLabel
           /\ added.projectType = projType
           /\ added.cycle = projCycle
           /\ added.approvalDate = projApproval
    /\ activeProjectId' = activeProjectId
    /\ projOpen' = FALSE
    /\ projLabel' = ""
    /\ projApproval' = <<>>

ProjectsFilledIn ==
    \A i \in 1..Len(projects) :
        projects[i].label # "" /\ projects[i].approvalDate # <<>>

\* C19: addProject with an empty label or an empty approval date changes
\* nothing; with both filled in it appends one project carrying the form's
\* label, type, cycle and approval date, keeps the projects already there
\* and the active selection, closes the modal and clears label and
\* approval date. So every project of the list has a label and an approval
\* date that are not empty.
C19_AddProjectEffect ==
    /\ [][addProject => IF FormIncomplete THEN AddRejected ELSE AddAccepted]_vars
    /\ [][Len(projects') # Len(projects) => addProject /\ ~FormIncomplete]_vars
    /\ [](ProjectsFilledIn)

C19_Witness ==
    /\ Len(projects) = Len(SeedProjects) + 1
    /\ SubSeq(projects, 1, Len(SeedProjects)) = SeedProjects
    /\ projects[Len(projects)].label = "Plan A"
    /\ projects[Len(projects)].approvalDate = <<2025, 5, 1>>
    /\ projects[Len(projects)].projectType = "modular"
    /\ ~projOpen /\ projLabel = "" /\ projApproval = <<>>
    /\ activeProjectId = SeedProjects[2].id

---------------------------------------------------------------------------
(* The threshold between 'expiring' and 'valid', in whole days.            *)

\* The time from the call to expiresAt, when it is a whole number of days.
LeftIsWholeDays == (InstantOf(Result.expiresAt) - callNow) % HoursPerDay = 0

DaysLeft == (InstantOf(Result.expiresAt) - callNow) \div HoursPerDay

\* The least number of days whose months, rounded, come to `m`.
FirstDaysRoundingTo(m) ==
    CHOOSE d \in 0..(m * ApproxMonthDays) :
        /\ MathRound(d, ApproxMonthDays) >= m
        /\ \A c \in 0..(d - 1) : MathRound(c, ApproxMonthDays) < m

\* C20: when expiresAt lies a whole number of days from the time of the
\* call, a pre-cutover project is 'expiring' exactly when that number is at
\* least 0 and less than 165, and 'valid' exactly when it is 165 or more:
\* 165 is the first number of days that rounds to 6 months.
C20_DayThreshold ==
    (Called /\ PreCutover /\ Returns /\ LeftIsWholeDays) =>
        /\ Result.status = "expiring" <=> (0 <= DaysLeft /\ DaysLeft < 165)
        /\ Result.status = "valid" <=> DaysLeft >= 165
        /\ FirstDaysRoundingTo(ExpiringBelow) = 165
        /\ DaysLeft = 165 => Result.monthsLeft = ExpiringBelow
        /\ DaysLeft = 164 => Result.monthsLeft = ExpiringBelow - 1

C20_Witness ==
    /\ Called /\ PreCutover /\ Returns /\ LeftIsWholeDays
    /\ DaysLeft = 165
    /\ Result.status = "valid"
    /\ prevStatus = "none"

---------------------------------------------------------------------------
(* The text shown for a status.                                            *)

\* `Expires in ${p.monthsLeft}m`
ExpiresIn(n) == "Expires in " \o ToString(n) \o "m"

\* function statusLabel(p); the dash of the first label is a long dash in
\* the source, written here with the characters a string may hold.
statusLabel(p) ==
    IF p.cycle = "post2026" THEN "CBSC 2026+ -- Compliant"
    ELSE IF p.status = "expired" THEN "Expired"
    ELSE IF p.status = "expiring" THEN ExpiresIn(p.monthsLeft)
    ELSE "Valid"

\* C21: in every status computeCompliance returns, 'expired' comes with
\* monthsLeft = 0, 'expiring' with monthsLeft from 0 to 5, so that its label
\* reads 'Expires in Nm' with N from 0 to 5, and 'valid' with monthsLeft of
\* 6 or more.
C21_MonthsLeftRange ==
    (Called /\ Returns) =>
        /\ Result.status = "expired" =>
              Result.monthsLeft = 0 /\ statusLabel(Result) = "Expired"
        /\ Result.status = "expiring" =>
              /\ Result.monthsLeft \in 0..(ExpiringBelow - 1)
              /\ statusLabel(Result) \in {ExpiresIn(n) : n \in 0..5}
        /\ Result.status = "valid" =>
              Result.monthsLeft >= ExpiringBelow /\ statusLabel(Result) = "Valid"

\* A project that has not expired yet and is shown as 'Expires in 0m'.
C21_Witness ==
    /\ Called /\ Returns /\ PreCutover
    /\ Result.status = "expiring"
    /\ Result.monthsLeft = 0
    /\ InstantOf(Result.expiresAt) >= callNow
    /\ statusLabel(Result) = "Expires in 0m"

=============================================================================
